---- MODULE Spec2Model ----
(***************************************************************************)
(* A model of pymorphy3's MorphAnalyzer (src/pymorphy3/analyzer.py) and of *)
(* the dictionary loader (src/pymorphy3/opencorpora_dict/storage.py).      *)
(*                                                                         *)
(* The module holds one specification per part of the program:             *)
(*   SpecPath       MorphAnalyzer.__init__'s choice of the dictionary path *)
(*   SpecParse      parse(word) and tag(word) over the unit pipeline       *)
(*   SpecInflect    Parse.inflect(required_grammemes)                      *)
(*   SpecKnown      word_is_known(word, strict)                            *)
(*   SpecVersion    load_dict and its check of the format version          *)
(*   SpecParadigms  _load_paradigms on the bytes of paradigms.array        *)
(*   SpecInit       threads constructing and querying MorphAnalyzers       *)
(*   SpecLock       the lock protocol of MorphAnalyzer.__init__            *)
(* Each specification leaves the variables of the other parts at their     *)
(* idle values.                                                            *)
(***************************************************************************)
EXTENDS Integers, Sequences, FiniteSets, TLC

VARIABLES
    \* ---- SpecPath: the arguments and environment of MorphAnalyzer.__init__
    arg_path,       \* the constructor's path argument, or None
    arg_lang,       \* the constructor's lang argument, or None
    environ,        \* os.environ: the value of PYMORPHY2_DICT_PATH, or None when unset
    lang_paths,     \* _lang_dict_paths(): installed language code -> bundle path
    chosen_path,    \* the local `path` after line 224, or the error raised
    path_pc,        \* "start" | "done"
    \* ---- SpecParse: one MorphAnalyzer and one parse(word) or tag(word) call
    units_unbound,  \* self._units_unbound: the configured sequence of unit groups
    units,          \* self._units: the flat list of (analyzer, is_terminal)
    has_estimator,  \* self.prob_estimator is not None
    p_t_given_w,    \* the estimator's table for word_lower: tag -> raw integer
    op,             \* the query running: "parse" | "tag"
    parse_pc,       \* "loop" | "estimate" | "done"
    unit_i,         \* the position of the for loop over self._units
    res,            \* the local res
    calls,          \* history: the analyzers called so far, in call order
    outs,           \* history: what each call returned, in call order
    result,         \* what the call returned or raised
    \* ---- SpecInflect: one Parse.inflect(required_grammemes) call
    form,           \* the parse inflect is called on
    lexeme,         \* what get_lexeme(form) returns: the forms of its lexeme
    required,       \* the argument required_grammemes
    inflected,      \* what inflect returned
    infl_pc,        \* "start" | "done"
    \* ---- SpecKnown: one MorphAnalyzer.word_is_known(word, strict) call
    words_dawg,     \* self.dictionary.words: the keys of the words DAWG
    char_substitutes, \* self.char_substitutes: character -> its substitutes
    word,           \* the argument word
    strict,         \* the argument strict
    known,          \* what word_is_known returned
    known_pc,       \* "start" | "done"
    \* ---- SpecVersion: one load_dict(path) call on a dictionary bundle
    format_version, \* meta.json's format_version: Missing, or its value
    gramtab_format, \* the argument gramtab_format
    bundle_formats, \* meta.json's gramtab_formats: the formats the bundle holds
    files_read,     \* history: the bundle's files read so far, in order
    tag_initialised, \* Tag._init_grammemes has run
    load_pc,        \* where load_dict stands
    load_result,    \* what load_dict returned or raised
    \* ---- SpecParadigms: one _load_paradigms(filename) call
    para_file,      \* the bytes of paradigms.array
    para_result,    \* what _load_paradigms returned or raised
    para_pc,        \* "start" | "done"
    \* ---- SpecInit: the threads of one process constructing and querying
    init_stack,     \* thread -> its __init__ calls in progress, innermost last
    lock_owner,     \* the thread holding MorphAnalyzer._lock, or Unowned
    lock_count,     \* how many times the owner has acquired the RLock
    tag_grammemes,  \* the registry's Tag class: grammeme -> its index, -1 unknown
    analyzers,      \* the MorphAnalyzers constructed so far
    started,        \* thread -> how many constructions it has started
    outcome         \* thread -> what its last call returned, raised or read

None == "None"

\* The owner of an RLock no thread holds; the threads are 1, 2, ...
Unowned == 0

pathVars == <<arg_path, arg_lang, environ, lang_paths, chosen_path, path_pc>>

parseVars == <<units_unbound, units, has_estimator, p_t_given_w, op, parse_pc,
               unit_i, res, calls, outs, result>>

inflVars == <<form, lexeme, required, inflected, infl_pc>>

knownVars == <<words_dawg, char_substitutes, word, strict, known, known_pc>>

versionVars == <<format_version, gramtab_format, bundle_formats, files_read,
                 tag_initialised, load_pc, load_result>>
paraVars == <<para_file, para_result, para_pc>>

initVars == <<init_stack, lock_owner, lock_count, tag_grammemes, analyzers,
              started, outcome>>

vars == <<pathVars, parseVars, inflVars, knownVars, versionVars, paraVars,
          initVars>>

notPathVars == <<parseVars, inflVars, knownVars, versionVars, paraVars,
    initVars>>
notParseVars == <<pathVars, inflVars, knownVars, versionVars, paraVars,
    initVars>>
notInflVars == <<pathVars, parseVars, knownVars, versionVars, paraVars,
    initVars>>
notKnownVars == <<pathVars, parseVars, inflVars, versionVars, paraVars,
    initVars>>
notVersionVars == <<pathVars, parseVars, inflVars, knownVars, paraVars,
    initVars>>
notParaVars == <<pathVars, parseVars, inflVars, knownVars, versionVars,
    initVars>>
notInitVars == <<pathVars, parseVars, inflVars, knownVars, versionVars,
                 paraVars>>

(***************************************************************************)
(* Idle values: what a specification leaves the other parts' variables at  *)
(***************************************************************************)

PathIdle ==
    /\ arg_path = None
    /\ arg_lang = None
    /\ environ = None
    /\ lang_paths = <<>>
    /\ chosen_path = None
    /\ path_pc = "idle"

ParseIdle ==
    /\ units_unbound = <<>>
    /\ units = <<>>
    /\ has_estimator = FALSE
    /\ p_t_given_w = <<>>
    /\ op = None
    /\ parse_pc = "idle"
    /\ unit_i = 0
    /\ res = <<>>
    /\ calls = <<>>
    /\ outs = <<>>
    /\ result = None

InflIdle ==
    /\ form = None
    /\ lexeme = <<>>
    /\ required = {}
    /\ inflected = None
    /\ infl_pc = "idle"

KnownIdle ==
    /\ words_dawg = {}
    /\ char_substitutes = <<>>
    /\ word = <<>>
    /\ strict = FALSE
    /\ known = FALSE
    /\ known_pc = "idle"

VersionIdle ==
    /\ format_version = None
    /\ gramtab_format = None
    /\ bundle_formats = {}
    /\ files_read = <<>>
    /\ tag_initialised = FALSE
    /\ load_pc = "idle"
    /\ load_result = None

ParaIdle ==
    /\ para_file = <<>>
    /\ para_result = None
    /\ para_pc = "idle"

InitIdle ==
    /\ init_stack = <<>>
    /\ lock_owner = Unowned
    /\ lock_count = 0
    /\ tag_grammemes = <<>>
    /\ analyzers = {}
    /\ started = <<>>
    /\ outcome = <<>>

IdleExceptPath == ParseIdle /\ InflIdle /\ KnownIdle /\ VersionIdle /\ ParaIdle
    /\ InitIdle
IdleExceptParse == PathIdle /\ InflIdle /\ KnownIdle /\ VersionIdle /\ ParaIdle
    /\ InitIdle
IdleExceptInfl == PathIdle /\ ParseIdle /\ KnownIdle /\ VersionIdle /\ ParaIdle
    /\ InitIdle
IdleExceptKnown == PathIdle /\ ParseIdle /\ InflIdle /\ VersionIdle /\ ParaIdle
    /\ InitIdle
IdleExceptVersion == PathIdle /\ ParseIdle /\ InflIdle /\ KnownIdle /\ ParaIdle
    /\ InitIdle
IdleExceptPara == PathIdle /\ ParseIdle /\ InflIdle /\ KnownIdle /\ VersionIdle
    /\ InitIdle
IdleExceptInit == PathIdle /\ ParseIdle /\ InflIdle /\ KnownIdle /\ VersionIdle
    /\ ParaIdle

(***************************************************************************)
(* SpecPath: choosing the dictionary path                                  *)
(***************************************************************************)

ArgPaths == {"/arg/a", "/arg/b"}
EnvPaths == {"/env/d"}
Langs == {"ru", "uk", "ru-old"}
BundlePath(lang) ==
    CASE lang = "ru" -> "/bundle/ru"
      [] lang = "uk" -> "/bundle/uk"
      [] OTHER -> "/bundle/ru-old"

\* lang_dict_path(lang): the installed bundle of the language, or ValueError.
lang_dict_path(lang, lp) ==
    IF lang \in DOMAIN lp THEN lp[lang] ELSE "ValueError"

\* A slip the claims must notice: the language lookup done before the
\* environment variable is looked at.
choose_dictionary_path_lang_first(path, lang, env, lp) ==
    IF path # None THEN path
    ELSE IF lang \in DOMAIN lp THEN lp[lang]
    ELSE IF env # None THEN env
    ELSE "ValueError"

\* MorphAnalyzer.choose_dictionary_path(path, lang)
choose_dictionary_path(path, lang, env, lp) ==
    IF path # None THEN path
    ELSE IF env # None THEN env
    ELSE lang_dict_path(lang, lp)

InitPath ==
    /\ arg_path \in ArgPaths \cup {None}
    /\ arg_lang \in {"ru", "uk"} \cup {None}
    /\ environ \in EnvPaths \cup {None}
    /\ \E inst \in SUBSET Langs : lang_paths = [l \in inst |-> BundlePath(l)]
    /\ chosen_path = None
    /\ path_pc = "start"
    /\ IdleExceptPath

\* MorphAnalyzer.__init__, lines 218-224: the default language, then the path.
InitChoosePath ==
    /\ path_pc = "start"
    /\ LET lang == IF arg_path = None /\ arg_lang = None THEN "ru" ELSE arg_lang
       IN  chosen_path' = choose_dictionary_path(arg_path, lang, environ, lang_paths)
    /\ path_pc' = "done"
    /\ UNCHANGED <<arg_path, arg_lang, environ, lang_paths>>
    /\ UNCHANGED notPathVars

NextPath == InitChoosePath

SpecPath == InitPath /\ [][NextPath]_vars

\* C8 (as stated): the environment variable decides the path only when neither
\* a path nor a language code is supplied; a supplied path is used; a supplied
\* language code (without a path) resolves through the language lookup,
\* whether or not the environment variable is set.
C8_EnvOnlyWithoutPathAndLang ==
    path_pc = "done" =>
        /\ arg_path # None => chosen_path = arg_path
        /\ (arg_path = None /\ arg_lang # None) =>
               chosen_path = lang_dict_path(arg_lang, lang_paths)
        /\ (arg_path = None /\ arg_lang = None /\ environ # None) =>
               chosen_path = environ

\* C8 (amended): a supplied path is used; without a path the environment
\* variable, when set, decides the path whether or not a language code is
\* supplied; the language lookup (of the given code, or of 'ru' when none is
\* given) is used only when there is no path and the variable is unset.
C8_EnvBeforeLang ==
    path_pc = "done" =>
        /\ arg_path # None => chosen_path = arg_path
        /\ (arg_path = None /\ environ # None) => chosen_path = environ
        /\ (arg_path = None /\ environ = None) =>
               LET lang == IF arg_lang = None THEN "ru" ELSE arg_lang
               IN  chosen_path = IF lang \in DOMAIN lang_paths
                                 THEN BundlePath(lang) ELSE "ValueError"

\* A construction with a language code, no path and the variable set, where
\* the language's bundle is installed: the path still comes from the variable.
C8_Witness ==
    /\ path_pc = "done"
    /\ arg_path = None
    /\ arg_lang = "uk"
    /\ "uk" \in DOMAIN lang_paths
    /\ environ # None
    /\ chosen_path = environ

(***************************************************************************)
(* SpecParse: the unit pipeline of parse and tag, and the probability      *)
(* estimator                                                               *)
(***************************************************************************)

\* The most units a configuration binds.
MaxUnits == 3

\* ---- rationals, for scores: <<numerator, denominator>> in lowest terms
RECURSIVE GCD(_, _)
GCD(a, b) == IF b = 0 THEN a ELSE GCD(b, a % b)

Frac(n, d) == IF n = 0 THEN <<0, 1>> ELSE <<n \div GCD(n, d), d \div GCD(n, d)>>

FracGeq(a, b) == a[1] * b[2] >= b[1] * a[2]

\* ---- the data of a query
Tags == {"NOUN", "VERB"}
\* Unit scores, in halves: 0.0, 0.5, 1.0.
UnitScores == {Frac(0, 2), Frac(1, 2), Frac(2, 2)}
\* ConditionalProbDistDAWG values: the stored integer is the probability * ProbScale.
ProbScale == 1000000
RawProbs == {0, 250000, 750000}

TheWord == "Word"
TheNormalForm == "word"

\* The parses unit u may return on one call (it stamps itself on the methods
\* stack), and the tags it may return: nothing, or one analysis.  What a unit
\* returns may depend on the seen set the pipeline threads through the units:
\* every return value is allowed at every call.
UnitParses(u) ==
    {<<>>} \cup
    {<<[word |-> TheWord, tag |-> t, normal_form |-> TheNormalForm,
        score |-> s, methods_stack |-> <<u>>]>> : t \in Tags, s \in UnitScores}

UnitTags(u) == {<<>>} \cup {<<t>> : t \in Tags}

\* A configured group: one unit ("tuple" FALSE, size 1) or a tuple of size units.
Groups == {[tuple |-> FALSE, size |-> 1]} \cup
          {[tuple |-> TRUE, size |-> k] : k \in 1..MaxUnits}

RECURSIVE TotalSize(_)
TotalSize(cfg) == IF cfg = <<>> THEN 0 ELSE Head(cfg).size + TotalSize(Tail(cfg))

RECURSIVE SeqsUpTo(_, _)
SeqsUpTo(S, n) ==
    IF n = 0 THEN {<<>>}
    ELSE LET shorter == SeqsUpTo(S, n - 1)
         IN  shorter \cup {Append(q, x) : q \in {r \in shorter : Len(r) = n - 1}, x \in S}

Configurations == {cfg \in SeqsUpTo(Groups, MaxUnits) : TotalSize(cfg) <= MaxUnits}

\* A slip the claims must notice: every member of a tuple bound as terminal.
RECURSIVE init_units_all_terminal(_, _)
init_units_all_terminal(units_cfg, first) ==
    IF units_cfg = <<>> THEN <<>>
    ELSE [k \in 1..Head(units_cfg).size |->
             [analyzer |-> first + k - 1, is_terminal |-> TRUE]]
         \o init_units_all_terminal(Tail(units_cfg), first + Head(units_cfg).size)

\* MorphAnalyzer._init_units: the groups flattened; the units are numbered in
\* the order they are bound, starting at first.
RECURSIVE init_units(_, _)
init_units(units_cfg, first) ==
    IF units_cfg = <<>> THEN <<>>
    ELSE LET item == Head(units_cfg)
             bound == IF item.tuple
                      THEN [k \in 1..item.size |->
                               [analyzer |-> first + k - 1,
                                is_terminal |-> (k = item.size)]]
                      ELSE <<[analyzer |-> first, is_terminal |-> TRUE]>>
         IN  bound \o init_units(Tail(units_cfg), first + item.size)

\* ConditionalProbDistDAWG.prob(word_lower, tag)
prob(table, tag) == Frac(table[tag], ProbScale)

RECURSIVE SumScores(_)
SumScores(parses) ==
    \* the unit scores are halves: the sum, in halves
    IF parses = <<>> THEN 0
    ELSE (IF Head(parses).score[2] = 1 THEN 2 * Head(parses).score[1]
          ELSE Head(parses).score[1]) + SumScores(Tail(parses))

Halves(score) == IF score[2] = 1 THEN 2 * score[1] ELSE score[1]

\* sorted(items, key=..., reverse=True): a stable sort, descending by key.
\* keys[i] is the key of items[i]; the sort is done on the positions.
RECURSIVE InsertDesc(_, _, _)
InsertDesc(sorted, i, keys) ==
    IF sorted = <<>> THEN <<i>>
    ELSE IF FracGeq(keys[Head(sorted)], keys[i])
         THEN <<Head(sorted)>> \o InsertDesc(Tail(sorted), i, keys)
         ELSE <<i>> \o sorted

RECURSIVE SortedPositions(_, _)
SortedPositions(n, keys) ==
    IF n = 0 THEN <<>> ELSE InsertDesc(SortedPositions(n - 1, keys), n, keys)

SortedDesc(items, keys) ==
    LET perm == SortedPositions(Len(items), keys)
    IN  [k \in 1..Len(items) |-> items[perm[k]]]

Ok(v) == [ok |-> TRUE, val |-> v]
Raise(e) == [ok |-> FALSE, val |-> e]

\* A slip the claims must notice: the scores replaced and the list left unsorted.
apply_to_parses_unsorted(table, parses) ==
    IF parses = <<>> THEN Ok(<<>>)
    ELSE IF \A i \in 1..Len(parses) : table[parses[i].tag] = 0
    THEN IF SumScores(parses) = 0 THEN Raise("ZeroDivisionError")
         ELSE Ok([i \in 1..Len(parses) |->
                    [parses[i] EXCEPT !.score =
                        Frac(Halves(parses[i].score), SumScores(parses))]])
    ELSE Ok([i \in 1..Len(parses) |->
                [parses[i] EXCEPT !.score = prob(table, parses[i].tag)]])

\* A slip the claims must notice: the list sorted ascending and then reversed,
\* which turns parses of equal probability around.
apply_to_parses_ties_reversed(table, parses) ==
    IF parses = <<>> THEN Ok(<<>>)
    ELSE IF \A i \in 1..Len(parses) : table[parses[i].tag] = 0
    THEN IF SumScores(parses) = 0 THEN Raise("ZeroDivisionError")
         ELSE Ok([i \in 1..Len(parses) |->
                    [parses[i] EXCEPT !.score =
                        Frac(Halves(parses[i].score), SumScores(parses))]])
    ELSE LET n == Len(parses)
             turned == [i \in 1..n |-> parses[n + 1 - i]]
         IN  Ok(SortedDesc([i \in 1..n |->
                              [turned[i] EXCEPT !.score = prob(table, turned[i].tag)]],
                           [i \in 1..n |-> prob(table, turned[i].tag)]))

\* ProbabilityEstimator.apply_to_parses(word, word_lower, parses)
apply_to_parses(table, parses) ==
    IF parses = <<>> THEN Ok(<<>>)
    ELSE IF \A i \in 1..Len(parses) : table[parses[i].tag] = 0
    THEN \* sum(probs) == 0: k = 1.0 / sum(scores), then score * k
         IF SumScores(parses) = 0 THEN Raise("ZeroDivisionError")
         ELSE Ok([i \in 1..Len(parses) |->
                    [parses[i] EXCEPT !.score =
                        Frac(Halves(parses[i].score), SumScores(parses))]])
    ELSE Ok(SortedDesc([i \in 1..Len(parses) |->
                          [parses[i] EXCEPT !.score = prob(table, parses[i].tag)]],
                       [i \in 1..Len(parses) |-> prob(table, parses[i].tag)]))

\* ProbabilityEstimator.apply_to_tags(word, word_lower, tags)
apply_to_tags(table, tags) ==
    IF tags = <<>> THEN Ok(tags)
    ELSE Ok(SortedDesc(tags, [i \in 1..Len(tags) |-> prob(table, tags[i])]))

ZeroTable == [t \in Tags |-> 0]

InitParse ==
    /\ units_unbound \in Configurations
    /\ units = init_units(units_unbound, 1)
    /\ has_estimator \in BOOLEAN
    /\ p_t_given_w \in IF has_estimator THEN [Tags -> RawProbs] ELSE {ZeroTable}
    /\ op \in {"parse", "tag"}
    /\ parse_pc = IF units = <<>> THEN "estimate" ELSE "loop"
    /\ unit_i = 1
    /\ res = <<>>
    /\ calls = <<>>
    /\ outs = <<>>
    /\ result = None
    /\ IdleExceptParse

\* One pass of the for loop of parse (lines 338-342) or tag (lines 357-361).
CallUnit ==
    /\ parse_pc = "loop"
    /\ LET u == units[unit_i]
       IN  \E out \in IF op = "parse" THEN UnitParses(u.analyzer)
                      ELSE UnitTags(u.analyzer) :
             /\ res' = res \o out
             /\ calls' = Append(calls, u.analyzer)
             /\ outs' = Append(outs, out)
             /\ IF u.is_terminal /\ res' # <<>>
                THEN parse_pc' = "estimate" /\ unit_i' = unit_i
                ELSE /\ unit_i' = unit_i + 1
                     /\ parse_pc' = IF unit_i = Len(units) THEN "estimate" ELSE "loop"
    /\ UNCHANGED <<units_unbound, units, has_estimator, p_t_given_w, op, result>>
    /\ UNCHANGED notParseVars

\* After the loop: the estimator when there is one, and the return
\* (parse lines 344-350, tag lines 363-365).
Return ==
    /\ parse_pc = "estimate"
    /\ LET r == IF ~has_estimator THEN Ok(res)
                ELSE IF op = "parse" THEN apply_to_parses(p_t_given_w, res)
                ELSE apply_to_tags(p_t_given_w, res)
       IN  /\ result' = r
           /\ res' = IF r.ok THEN r.val ELSE res
    /\ parse_pc' = "done"
    /\ UNCHANGED <<units_unbound, units, has_estimator, p_t_given_w, op,
                   unit_i, calls, outs>>
    /\ UNCHANGED notParseVars

NextParse == CallUnit \/ Return

SpecParse == InitParse /\ [][NextParse]_vars

\* ---- what the claims about the pipeline speak of

\* The flat positions that end a configured group: the terminal units.
RECURSIVE GroupEnds(_, _)
GroupEnds(cfg, before) ==
    IF cfg = <<>> THEN {}
    ELSE {before + Head(cfg).size} \cup GroupEnds(Tail(cfg), before + Head(cfg).size)

\* What the first k calls returned, one after the other.
RECURSIVE ConcatOuts(_)
ConcatOuts(k) == IF k = 0 THEN <<>> ELSE ConcatOuts(k - 1) \o outs[k]

StopsAfter(j) ==
    j \in GroupEnds(units_unbound, 0) /\ Len(ConcatOuts(j)) > 0

\* C1: parse and tag call the units in configured order, accumulate their
\* outputs in that order, and stop right after the first terminal unit at which
\* the accumulated result is non-empty: no later unit is called, and nothing
\* else (a non-terminal unit with a non-empty result, a terminal unit with an
\* empty one) ends the pipeline before the last unit.
C1_PipelineStopsAtFirstTerminalHit ==
    parse_pc \in {"loop", "estimate", "done"} =>
        LET n == TotalSize(units_unbound)
            k == Len(calls)
        IN  /\ k <= n
            /\ calls = [j \in 1..k |-> j]
            /\ parse_pc # "done" => res = ConcatOuts(k)
            /\ (parse_pc = "done" /\ ~has_estimator) => result = Ok(ConcatOuts(k))
            /\ \A j \in 1..(k - 1) : ~StopsAfter(j)
            /\ parse_pc = "loop" => (k < n /\ ~StopsAfter(k))
            /\ parse_pc \in {"estimate", "done"} => (k = n \/ StopsAfter(k))

\* A query over three units, the first non-terminal with a non-empty output:
\* the second, terminal, was still called and ended the pipeline, and the
\* third was never called.
C1_Witness ==
    /\ parse_pc = "done"
    /\ Len(units) = 3
    /\ ~units[1].is_terminal
    /\ units[2].is_terminal
    /\ calls = <<1, 2>>
    /\ Len(outs[1]) > 0

NonIncreasing(parses) ==
    \A i \in 1..(Len(parses) - 1) : FracGeq(parses[i].score, parses[i + 1].score)

EstimatorApplied == parse_pc = "done" /\ op = "parse" /\ has_estimator

\* C4 (as stated): whenever the probability estimator is applied, the scores
\* of the list parse(word) returns are non-increasing.
C4_ScoresNonIncreasing ==
    (EstimatorApplied /\ result.ok) => NonIncreasing(result.val)

\* C4 (amended): whenever the probability estimator is applied and at least
\* one of the parses has a non-zero P(tag | word_lower), the scores of the list
\* parse(word) returns are non-increasing.
C4_ScoresNonIncreasingWithProbs ==
    (/\ EstimatorApplied
     /\ result.ok
     /\ \E i \in 1..Len(result.val) : p_t_given_w[result.val[i].tag] # 0)
    => NonIncreasing(result.val)

\* The estimator moved the second unit's parse, the more probable one, in
\* front of the first unit's.
C4_Witness ==
    /\ EstimatorApplied
    /\ result.ok
    /\ Len(result.val) = 2
    /\ result.val[1].methods_stack = <<2>>
    /\ result.val[2].methods_stack = <<1>>
    /\ p_t_given_w[result.val[2].tag] # 0
    /\ result.val[1].score # result.val[2].score

\* C10: for every non-empty parse list whose P(tag | word_lower) values sum to
\* 0, apply_to_parses returns a list of the same length and order, with word,
\* tag, normal form and methods stack unchanged and each score replaced by
\* s_i / (sum of all s_j), and never raises: also when every unit score is 0.
C10_ZeroProbsNormaliseWithoutRaising ==
    LET parses == ConcatOuts(Len(outs))
    IN  (/\ EstimatorApplied
         /\ Len(parses) > 0
         /\ \A i \in 1..Len(parses) : p_t_given_w[parses[i].tag] = 0)
        => /\ result.ok
           /\ Len(result.val) = Len(parses)
           /\ \A i \in 1..Len(parses) :
                result.val[i] =
                    [parses[i] EXCEPT !.score =
                        Frac(Halves(parses[i].score), SumScores(parses))]

\* The parses the pipeline handed to the estimator, in pipeline order.
InputParses == ConcatOuts(Len(outs))

\* C11: for every parse list in which at least one parse has a non-zero
\* P(tag | word_lower), apply_to_parses returns a permutation of the input
\* parses with each score replaced by that parse's probability, ordered by
\* score descending, parses of equal probability keeping their input order.
C11_StableSortByProbability ==
    (/\ EstimatorApplied
     /\ \E i \in 1..Len(InputParses) : p_t_given_w[InputParses[i].tag] # 0)
    => /\ result.ok
       /\ Len(result.val) = Len(InputParses)
       /\ \E perm \in [1..Len(InputParses) -> 1..Len(InputParses)] :
             /\ \A j, k \in 1..Len(InputParses) : perm[j] = perm[k] => j = k
             /\ \A k \in 1..Len(InputParses) :
                   result.val[k] =
                       [InputParses[perm[k]] EXCEPT
                           !.score = prob(p_t_given_w, InputParses[perm[k]].tag)]
             /\ \A j, k \in 1..Len(InputParses) :
                   j < k =>
                       /\ FracGeq(result.val[j].score, result.val[k].score)
                       /\ result.val[j].score = result.val[k].score
                              => perm[j] < perm[k]

\* Three parses, the last the most probable and the first two of one non-zero
\* probability: the last moved to the front, the two others kept their order.
C11_Witness ==
    /\ EstimatorApplied
    /\ result.ok
    /\ Len(InputParses) = 3
    /\ result.val[1].methods_stack = <<3>>
    /\ result.val[2].methods_stack = <<1>>
    /\ result.val[3].methods_stack = <<2>>
    /\ result.val[2].score = result.val[3].score
    /\ result.val[1].score # result.val[2].score
    /\ p_t_given_w[result.val[2].tag] # 0
    /\ InputParses[1].score # InputParses[2].score


(***************************************************************************)
(* SpecInflect: Parse.inflect over the lexeme of a parse                   *)
(***************************************************************************)

\* The most forms a lexeme holds.
MaxForms == 3

\* The grammemes of the loaded dictionary, by category.
Cases == {"nomn", "gent", "gen2"}
Numbers == {"plur"}
Grammemes == Cases \cup Numbers

\* The grammeme sets of the tags a lexeme's forms carry: a case, with or
\* without a number.
FormTags == {{c} \cup n : c \in Cases, n \in {{}} \cup {{x} : x \in Numbers}}

\* OpencorporaTag.fix_rare_cases: a rare case replaced by its common variant.
RareCase(g) == IF g = "gen2" THEN "gent" ELSE g
fix_rare_cases(grammemes) == {RareCase(g) : g \in grammemes}

\* The grammemes that cannot stand beside g: the others of its category.
Incompatible(g) ==
    (IF g \in Cases THEN Cases ELSE Numbers) \ {g}

\* OpencorporaTag.updated_grammemes(required): the tag's grammemes with the
\* required ones added and what is incompatible with a required one removed.
updated_grammemes(tag, req) ==
    (tag \cup req) \ UNION {Incompatible(g) : g \in req}

\* A form of a lexeme: the k-th form of its paradigm.
FormOf(k, tag) ==
    [word |-> k, tag |-> tag, normal_form |-> 1, score |-> Frac(1, 1),
     methods_stack |-> <<k>>]

Lexemes ==
    {[k \in 1..Len(tags) |-> FormOf(k, tags[k])] :
        tags \in SeqsUpTo(FormTags, MaxForms) \ {<<>>}}

\* MorphAnalyzer.get_lexeme(form): the unit of the last method enumerates the
\* forms; wrapping them in the result type keeps every field.
get_lexeme(frm, lex) == lex

\* A slip the claims must notice: the symmetric difference rewarded.
similarity_sign_flipped(grammemes, frm) ==
    10 * Cardinality(grammemes \cap frm.tag)
        + Cardinality((grammemes \ frm.tag) \cup (frm.tag \ grammemes))

\* similarity(frm) of _inflect, in tenths:
\* len(grammemes & tag.grammemes) - 0.1 * len(grammemes ^ tag.grammemes)
similarity(grammemes, frm) ==
    10 * Cardinality(grammemes \cap frm.tag)
        - Cardinality((grammemes \ frm.tag) \cup (frm.tag \ grammemes))

\* heapq.nlargest(1, items, key): [] for no items, else the first item of the
\* greatest key.
RECURSIVE FirstMax(_, _, _)
FirstMax(items, best, grammemes) ==
    IF items = <<>> THEN best
    ELSE FirstMax(Tail(items),
                  IF similarity(grammemes, Head(items)) > similarity(grammemes, best)
                  THEN Head(items) ELSE best,
                  grammemes)

\* A slip the claims must notice: of several items of the greatest key, the
\* last one returned.
nlargest1_last_of_ties(items, grammemes) ==
    IF items = <<>> THEN <<>>
    ELSE LET last == CHOOSE k \in 1..Len(items) :
                 /\ \A j \in 1..Len(items) :
                       similarity(grammemes, items[j]) <= similarity(grammemes, items[k])
                 /\ \A j \in (k + 1)..Len(items) :
                       similarity(grammemes, items[j]) < similarity(grammemes, items[k])
         IN  <<items[last]>>

nlargest1(items, grammemes) ==
    IF items = <<>> THEN <<>>
    ELSE <<FirstMax(Tail(items), Head(items), grammemes)>>

Satisfying(lex, req) ==
    LET Fits(f) == req \subseteq f.tag IN SelectSeq(lex, Fits)

\* A slip the claims must notice: no second pass after fix_rare_cases.
inflect_single_pass(frm, lex, req) ==
    nlargest1(Satisfying(get_lexeme(frm, lex), req),
              updated_grammemes(frm.tag, req))

\* MorphAnalyzer._inflect(form, required_grammemes)
inflect_(frm, lex, req) ==
    LET first_pass == Satisfying(get_lexeme(frm, lex), req)
        req2 == IF first_pass = <<>> THEN fix_rare_cases(req) ELSE req
        possible_results == IF first_pass = <<>>
                            THEN Satisfying(get_lexeme(frm, lex), req2)
                            ELSE first_pass
        grammemes == updated_grammemes(frm.tag, req2)
    IN  nlargest1(possible_results, grammemes)

\* The value inflect returns for Python's None.
NoParse == [none |-> TRUE]

InitInflect ==
    /\ lexeme \in Lexemes
    /\ form \in {lexeme[k] : k \in 1..Len(lexeme)}
    /\ required \in SUBSET Grammemes
    /\ inflected = None
    /\ infl_pc = "start"
    /\ IdleExceptInfl

\* Parse.inflect(required_grammemes), lines 37-39
Inflect ==
    /\ infl_pc = "start"
    /\ LET r == inflect_(form, lexeme, required)
       IN  inflected' = IF r = <<>> THEN NoParse ELSE r[1]
    /\ infl_pc' = "done"
    /\ UNCHANGED <<form, lexeme, required>>
    /\ UNCHANGED notInflVars

NextInflect == Inflect

SpecInflect == InitInflect /\ [][NextInflect]_vars

\* ---- what the claims about inflection speak of

LexemeForms == {lexeme[k] : k \in 1..Len(lexeme)}
FormsWith(req) == {f \in LexemeForms : req \subseteq f.tag}
\* The required set in force: fix_rare_cases(required) when no form satisfied
\* the original one.
RequiredInForce ==
    IF FormsWith(required) = {} THEN fix_rare_cases(required) ELSE required

\* C2: inflect returns either None or a form of the parse's lexeme whose tag's
\* grammeme set is a superset of the required set (of fix_rare_cases(required)
\* when no form satisfied the original set), and it returns None exactly when
\* no lexeme form survives both passes.
C2_InflectSatisfiesRequired ==
    infl_pc = "done" =>
        /\ (inflected = NoParse) <=> (FormsWith(RequiredInForce) = {})
        /\ inflected # NoParse =>
              /\ inflected \in LexemeForms
              /\ RequiredInForce \subseteq inflected.tag

\* An inflection that only the second pass answers: no form carries the rare
\* case asked for, and the form of the common case is returned.
C2_Witness ==
    /\ infl_pc = "done"
    /\ required = {"gen2", "plur"}
    /\ FormsWith(required) = {}
    /\ inflected # NoParse
    /\ inflected.tag = {"gent", "plur"}
    /\ inflected # form

SameButScore(p, q) ==
    /\ p.word = q.word
    /\ p.tag = q.tag
    /\ p.normal_form = q.normal_form
    /\ p.methods_stack = q.methods_stack

\* The place of the parse in its lexeme.
FormIndex == CHOOSE k \in 1..Len(lexeme) : lexeme[k] = form

OwnGrammemes == infl_pc = "done" /\ required = form.tag

\* C5 (as stated): inflect(p, p.tag.grammemes) returns a Parse with the same
\* word, tag, normal form and methods stack as p, for every lexeme containing p.
C5_InflectOwnGrammemesIsIdentity ==
    OwnGrammemes => (inflected # NoParse /\ SameButScore(inflected, form))

\* C5 (amended): inflect(p, p.tag.grammemes) returns the first form of the
\* lexeme whose grammeme set equals p's: a Parse with p's tag, and with p's
\* word, normal form and methods stack too when no earlier form of the lexeme
\* carries the same grammeme set, also when the lexeme holds several forms
\* whose tags are supersets of p's grammemes.
C5_InflectOwnGrammemesIsFirstEqualForm ==
    OwnGrammemes =>
        /\ inflected # NoParse
        /\ \E k \in 1..Len(lexeme) :
              /\ inflected = lexeme[k]
              /\ lexeme[k].tag = form.tag
              /\ \A j \in 1..(k - 1) : lexeme[j].tag # form.tag
        /\ (\A j \in 1..(FormIndex - 1) : lexeme[j].tag # form.tag)
              => SameButScore(inflected, form)

\* p is the last form of a lexeme whose earlier forms carry strictly larger
\* grammeme sets: inflect on p's own grammemes still returns p.
C5_Witness ==
    /\ OwnGrammemes
    /\ Len(lexeme) = 3
    /\ form = lexeme[3]
    /\ form.tag # lexeme[1].tag /\ form.tag \subseteq lexeme[1].tag
    /\ form.tag # lexeme[2].tag /\ form.tag \subseteq lexeme[2].tag
    /\ inflected = form

\* Ten times |G /\ T| - 0.1 * |G symmetric difference T| for the k-th form of
\* the lexeme, G being the parse's grammemes updated with the required set in
\* force.
TenthsOfSimilarity(k) ==
    LET G == updated_grammemes(form.tag, RequiredInForce)
        T == lexeme[k].tag
    IN  10 * Cardinality(G \cap T) - Cardinality((G \cup T) \ (G \cap T))

\* C12: among the lexeme forms that satisfy the required grammemes, inflect
\* returns one of the maximum similarity |G /\ T| - 0.1 * |G symmetric
\* difference T|, and of several forms of the maximum similarity the first in
\* lexeme order.
C12_InflectReturnsFirstMostSimilar ==
    (infl_pc = "done" /\ FormsWith(RequiredInForce) # {}) =>
        \E k \in 1..Len(lexeme) :
            /\ inflected = lexeme[k]
            /\ RequiredInForce \subseteq lexeme[k].tag
            /\ \A j \in 1..Len(lexeme) :
                  RequiredInForce \subseteq lexeme[j].tag =>
                      /\ TenthsOfSimilarity(j) <= TenthsOfSimilarity(k)
                      /\ j < k => TenthsOfSimilarity(j) < TenthsOfSimilarity(k)

\* Three forms satisfy the required set; the first is the least similar and
\* the other two tie at the maximum: the second form is returned, though the
\* parse inflected is the third.
C12_Witness ==
    /\ infl_pc = "done"
    /\ Len(lexeme) = 3
    /\ form = lexeme[3]
    /\ required = {"plur"}
    /\ lexeme[1].tag = {"gent", "plur"}
    /\ lexeme[2].tag = {"nomn", "plur"}
    /\ lexeme[3].tag = {"nomn", "plur"}
    /\ inflected = lexeme[2]

(***************************************************************************)
(* SpecKnown: MorphAnalyzer.word_is_known                                  *)
(***************************************************************************)

\* The longest word, and the most keys in the words DAWG.
MaxWordLen == 2
MaxKeys == 2

\* Characters: "e" and "yo" stand for the Cyrillic letters ie and io, "E" and
\* "YO" for their capitals.  A word is a sequence of characters.
LowerChars == {"e", "yo"}
UpperChars == {"E", "YO"}
Chars == LowerChars \cup UpperChars

\* str.lower(), one character and a whole word
LowerChar(c) == CASE c = "E" -> "e" [] c = "YO" -> "yo" [] OTHER -> c
Lower(w) == [i \in 1..Len(w) |-> LowerChar(w[i])]

Words == SeqsUpTo(Chars, MaxWordLen)
\* The compiled dictionary holds lowercase words.
LowerWords == SeqsUpTo(LowerChars, MaxWordLen)
KeySets == {K \in SUBSET LowerWords : Cardinality(K) <= MaxKeys}

\* The substitution maps a language profile may configure: each character to
\* the set of characters that may stand for it in a dictionary key
\* (Russian: ie -> io).
SubstituteMaps ==
    {[c \in LowerChars |-> IF c \in from THEN LowerChars \ {c} ELSE {}] :
        from \in SUBSET LowerChars}

\* WordsDawg.compile_replaces(mapping): the lookup structure of the mapping.
compile_replaces(mapping) == mapping

Substitutes(c, replaces) == IF c \in DOMAIN replaces THEN replaces[c] ELSE {}

\* The keys reachable from w by substituting characters anywhere in it, zero
\* or more of them.
RECURSIVE Reachable(_, _)
Reachable(w, replaces) ==
    IF w = <<>> THEN {<<>>}
    ELSE {<<c>> \o rest : c \in {Head(w)} \cup Substitutes(Head(w), replaces),
                         rest \in Reachable(Tail(w), replaces)}

NoSubstitutes == [none |-> TRUE]

\* Dictionary.word_is_known(word, substitutes_compiled)
Dictionary_word_is_known(dawg, w, substitutes_compiled) ==
    IF substitutes_compiled = NoSubstitutes THEN w \in dawg
    ELSE Reachable(w, substitutes_compiled) \cap dawg # {}

\* A slip the claims must notice: strict ignored.
word_is_known_never_strict(dawg, replaces, w, is_strict) ==
    Dictionary_word_is_known(dawg, Lower(w), replaces)

\* MorphAnalyzer.word_is_known(word, strict)
word_is_known(dawg, replaces, w, is_strict) ==
    Dictionary_word_is_known(dawg, Lower(w),
                             IF is_strict THEN NoSubstitutes ELSE replaces)

InitKnown ==
    /\ words_dawg \in KeySets
    /\ char_substitutes \in {compile_replaces(m) : m \in SubstituteMaps}
    /\ word \in Words
    /\ strict \in BOOLEAN
    /\ known = FALSE
    /\ known_pc = "start"
    /\ IdleExceptKnown

\* MorphAnalyzer.word_is_known(word, strict), lines 446-449
WordIsKnown ==
    /\ known_pc = "start"
    /\ known' = word_is_known(words_dawg, char_substitutes, word, strict)
    /\ known_pc' = "done"
    /\ UNCHANGED <<words_dawg, char_substitutes, word, strict>>
    /\ UNCHANGED notKnownVars

NextKnown == WordIsKnown

SpecKnown == InitKnown /\ [][NextKnown]_vars

\* ---- what the claim about word_is_known speaks of

\* The words one substitution-equivalent rewrite away from w: one character
\* replaced by a character it substitutes or is a substitute of.
Equivalent(c, d) ==
    d \in Substitutes(c, char_substitutes) \/ c \in Substitutes(d, char_substitutes)
Rewrites(w) ==
    UNION {{[w EXCEPT ![i] = d] : d \in {x \in Chars : Equivalent(w[i], x)}} :
              i \in 1..Len(w)}
\* The words w turns into when one character is replaced by a substitute of it.
Substitutions(w) ==
    UNION {{[w EXCEPT ![i] = d] : d \in Substitutes(w[i], char_substitutes)} :
              i \in 1..Len(w)}

\* C3 (as stated): word_is_known(w, strict=True) is true iff w is itself a key
\* of the words DAWG; word_is_known(w, strict=False) is true iff some key
\* reachable from w under the configured substitutions is in the DAWG; hence
\* strict=True implies strict=False, and the non-strict answer is the same for
\* any two words that differ by one substitution-equivalent rewrite.
C3_KnownIffKeyOfWordItself ==
    known_pc = "done" =>
        /\ strict => (known <=> word \in words_dawg)
        /\ ~strict => (known <=> Reachable(word, char_substitutes) \cap words_dawg # {})
        /\ (strict /\ known) =>
              word_is_known(words_dawg, char_substitutes, word, FALSE)
        /\ ~strict =>
              \A w2 \in Rewrites(word) :
                  word_is_known(words_dawg, char_substitutes, w2, FALSE) = known

\* C3 (amended): word_is_known(w, strict=True) is true iff w.lower() is a key
\* of the words DAWG (exact membership of the lowercased word);
\* word_is_known(w, strict=False) is true iff some key reachable from w.lower()
\* under the configured substitutions is in the DAWG; hence strict=True
\* implies strict=False, and the non-strict answer is true for every word that
\* one configured substitution turns into a word known strictly.
C3_KnownIffKeyOfLoweredWord ==
    known_pc = "done" =>
        /\ strict => (known <=> Lower(word) \in words_dawg)
        /\ ~strict =>
              (known <=> \E key \in words_dawg :
                            /\ Len(key) = Len(word)
                            /\ \A i \in 1..Len(word) :
                                  \/ key[i] = LowerChar(word[i])
                                  \/ key[i] \in Substitutes(LowerChar(word[i]),
                                                            char_substitutes))
        /\ (strict /\ known) =>
              word_is_known(words_dawg, char_substitutes, word, FALSE)
        /\ ~strict =>
              \A w2 \in Substitutions(Lower(word)) :
                  word_is_known(words_dawg, char_substitutes, w2, TRUE) => known

\* A capitalised word with ie, asked about without strictness, is known
\* through the dictionary's key with io, which it is not itself.
C3_Witness ==
    /\ known_pc = "done"
    /\ ~strict
    /\ word = <<"E", "e">>
    /\ words_dawg = {<<"yo", "e">>}
    /\ known

(***************************************************************************)
(* SpecVersion: load_dict and the check of the bundle's format version     *)
(***************************************************************************)

\* The longest format_version string.
MaxVersionLen == 5

\* CURRENT_FORMAT_VERSION = '2.4', as a sequence of characters
CURRENT_FORMAT_VERSION == <<"2", ".", "4">>

VersionChars == {"0", "2", "4", "."}
\* meta.get('format_version', '0.0'), after str(): a JSON string or float
\* (load_meta reads floats as strings) gives its text, a JSON integer its
\* digits, a missing key '0.0'.
Missing == <<"missing">>
VersionTexts == SeqsUpTo(VersionChars, MaxVersionLen)
VersionValues == VersionTexts \cup {Missing}
DefaultVersion == <<"0", ".", "0">>

\* str.split('.'): the pieces between the dots
RECURSIVE Split(_, _)
Split(text, piece) ==
    IF text = <<>> THEN <<piece>>
    ELSE IF Head(text) = "." THEN <<piece>> \o Split(Tail(text), <<>>)
    ELSE Split(Tail(text), Append(piece, Head(text)))

HasDot(text) == \E i \in 1..Len(text) : text[i] = "."

\* A slip the claims must notice: the minor version compared too.
assert_format_is_compatible_exact(version) ==
    LET text == IF version = Missing THEN DefaultVersion ELSE version
    IN  IF ~HasDot(text) THEN Raise("ValueError")
        ELSE IF Len(Split(text, <<>>)) # 2 THEN Raise("ValueError")
        ELSE IF Split(text, <<>>) # Split(CURRENT_FORMAT_VERSION, <<>>)
             THEN Raise("ValueError")
        ELSE Ok(None)

\* _assert_format_is_compatible(meta, path)
assert_format_is_compatible(version) ==
    LET format_version_ == IF version = Missing THEN DefaultVersion ELSE version
    IN  IF ~HasDot(format_version_) THEN Raise("ValueError")
        ELSE LET parts == Split(format_version_, <<>>)
                 curr == Split(CURRENT_FORMAT_VERSION, <<>>)
             IN  \* major, minor = format_version.split('.') unpacks two values
                 IF Len(parts) # 2 THEN Raise("ValueError")
                 ELSE IF parts[1] # curr[1] THEN Raise("ValueError")
                 ELSE Ok(None)

\* tagset.registry: the gramtab formats with a Tag class
Registry == {"opencorpora-int", "opencorpora-ext"}
GramtabFormats == Registry \cup {"unregistered"}

InitVersion ==
    /\ format_version \in VersionValues
    /\ gramtab_format \in {"opencorpora-int", "unregistered"}
    /\ bundle_formats \in {{"opencorpora-int", "opencorpora-ext"}, {"opencorpora-ext"}}
    /\ files_read = <<>>
    /\ tag_initialised = FALSE
    /\ load_pc = "meta"
    /\ load_result = None
    /\ IdleExceptVersion

\* load_dict line 42: meta = load_meta(_f('meta.json'))
LoadMeta ==
    /\ load_pc = "meta"
    /\ files_read' = Append(files_read, "meta.json")
    /\ load_pc' = "check"
    /\ UNCHANGED <<format_version, gramtab_format, bundle_formats, tag_initialised,
                   load_result>>
    /\ UNCHANGED notVersionVars

\* load_dict line 43: _assert_format_is_compatible(meta, path)
AssertFormat ==
    /\ load_pc = "check"
    /\ LET r == assert_format_is_compatible(format_version)
       IN  IF r.ok THEN load_pc' = "tag_class" /\ load_result' = load_result
           ELSE load_pc' = "raised_version" /\ load_result' = r
    /\ UNCHANGED <<format_version, gramtab_format, bundle_formats, files_read,
                   tag_initialised>>
    /\ UNCHANGED notVersionVars

\* load_dict line 45: Tag = _load_tag_class(gramtab_format, _f('grammemes.json'))
LoadTagClass ==
    /\ load_pc = "tag_class"
    /\ IF gramtab_format \notin Registry
       THEN /\ load_pc' = "raised_tag_class"
            /\ load_result' = Raise("ValueError")
            /\ UNCHANGED <<files_read, tag_initialised>>
       ELSE /\ files_read' = Append(files_read, "grammemes.json")
            /\ tag_initialised' = TRUE
            /\ load_pc' = "gramtab"
            /\ UNCHANGED load_result
    /\ UNCHANGED <<format_version, gramtab_format, bundle_formats>>
    /\ UNCHANGED notVersionVars

\* load_dict lines 47-48: the gramtab of the format
LoadGramtab ==
    /\ load_pc = "gramtab"
    /\ IF gramtab_format \notin bundle_formats
       THEN /\ load_pc' = "raised_gramtab"
            /\ load_result' = Raise("ValueError")
            /\ UNCHANGED files_read
       ELSE /\ files_read' = Append(files_read, "gramtab.json")
            /\ load_pc' = "tables"
            /\ UNCHANGED load_result
    /\ UNCHANGED <<format_version, gramtab_format, bundle_formats, tag_initialised>>
    /\ UNCHANGED notVersionVars

\* load_dict lines 50-75: the suffixes, paradigms, words and prediction DAWGs
LoadTables ==
    /\ load_pc = "tables"
    /\ files_read' = files_read \o <<"suffixes.json", "paradigms.array", "words.dawg",
                                     "prediction-suffixes.dawg">>
    /\ load_pc' = "returned"
    /\ load_result' = Ok("LoadedDictionary")
    /\ UNCHANGED <<format_version, gramtab_format, bundle_formats, tag_initialised>>
    /\ UNCHANGED notVersionVars

NextVersion == LoadMeta \/ AssertFormat \/ LoadTagClass \/ LoadGramtab \/ LoadTables

SpecVersion == InitVersion /\ [][NextVersion]_vars

\* ---- what the claim about the format version speaks of

\* The MAJOR part of a version: what stands before its first dot.
RECURSIVE MajorPart(_)
MajorPart(text) ==
    IF text = <<>> \/ Head(text) = "." THEN <<>>
    ELSE <<Head(text)>> \o MajorPart(Tail(text))

CountDots(text) == Cardinality({i \in 1..Len(text) : text[i] = "."})

VersionChecked == load_pc \notin {"meta", "check"}
VersionRejected == load_pc = "raised_version"

MajorMatches ==
    /\ format_version # Missing
    /\ HasDot(format_version)
    /\ MajorPart(format_version) = MajorPart(CURRENT_FORMAT_VERSION)

\* C7 (as stated): load_dict accepts a bundle iff the MAJOR part of its
\* format_version equals the MAJOR part of CURRENT_FORMAT_VERSION, whatever
\* the minor; a different major, a missing format_version or one without a
\* '.' makes it raise before any other file is read or the tag class state is
\* initialised.
C7_AcceptedIffMajorMatches ==
    VersionChecked =>
        /\ ~VersionRejected <=> MajorMatches
        /\ VersionRejected => (files_read = <<"meta.json">> /\ ~tag_initialised)

\* C7 (amended): load_dict accepts a bundle iff its format_version holds
\* exactly one '.' and what stands before it equals the MAJOR part of
\* CURRENT_FORMAT_VERSION, whatever the minor; every other format_version (a
\* different major, a missing one, one without a '.', one with more than one
\* '.') makes it raise before any other file is read or the tag class state
\* is initialised.
C7_AcceptedIffMajorMatchesAndOneDot ==
    VersionChecked =>
        /\ ~VersionRejected <=> (MajorMatches /\ CountDots(format_version) = 1)
        /\ VersionRejected => (files_read = <<"meta.json">> /\ ~tag_initialised)

\* A bundle of another minor version ('2.0' against '2.4') loaded to the end.
C7_Witness ==
    /\ load_pc = "returned"
    /\ format_version = <<"2", ".", "0">>
    /\ load_result = Ok("LoadedDictionary")
    /\ Len(files_read) > 1

(***************************************************************************)
(* SpecParadigms: _load_paradigms on the bytes of paradigms.array          *)
(***************************************************************************)

\* The most 16-bit values a paradigms.array holds.
MaxFileWords == 6

\* The 16-bit values the files are written from, and a file's bytes: each
\* value as two bytes, the low one first, with or without one stray byte at
\* the end.
WordValues == {0, 1, 3, 4, 256}
RECURSIVE Pack(_)
Pack(values) ==
    IF values = <<>> THEN <<>>
    ELSE <<Head(values) % 256, Head(values) \div 256>> \o Pack(Tail(values))

ParadigmFiles ==
    {Pack(values) \o stray : values \in SeqsUpTo(WordValues, MaxFileWords),
                             stray \in {<<>>, <<1>>}}

\* struct.unpack("<H", two bytes)[0]
Unpack(two) == two[1] + 256 * two[2]

Drop(bytes, n) == SubSeq(bytes, n + 1, Len(bytes))

\* array.array("H").fromfile(f, n) on the bytes left: the n values, or
\* EOFError when fewer are left.
FromFile(bytes, n) ==
    IF Len(bytes) < 2 * n THEN Raise("EOFError")
    ELSE Ok([k \in 1..n |-> Unpack(<<bytes[2 * k - 1], bytes[2 * k]>>)])

\* The for loop of _load_paradigms (lines 198-204): todo records still to
\* read from the bytes left.
RECURSIVE ReadParadigms(_, _, _)
ReadParadigms(bytes, todo, paradigms) ==
    IF todo = 0 THEN Ok(paradigms)
    ELSE IF Len(bytes) < 2 THEN Raise("struct.error")
    ELSE LET paradigm_len == Unpack(SubSeq(bytes, 1, 2))
             para == FromFile(Drop(bytes, 2), paradigm_len)
         IN  IF ~para.ok THEN para
             ELSE ReadParadigms(Drop(bytes, 2 + 2 * paradigm_len), todo - 1,
                                Append(paradigms, para.val))

\* _load_paradigms(filename)
load_paradigms(bytes) ==
    IF Len(bytes) < 2 THEN Raise("struct.error")
    ELSE ReadParadigms(Drop(bytes, 2), Unpack(SubSeq(bytes, 1, 2)), <<>>)

InitParadigms ==
    /\ para_file \in ParadigmFiles
    /\ para_result = None
    /\ para_pc = "start"
    /\ IdleExceptPara

\* load_dict line 51: paradigms = _load_paradigms(_f('paradigms.array'))
LoadParadigms ==
    /\ para_pc = "start"
    /\ para_result' = load_paradigms(para_file)
    /\ para_pc' = "done"
    /\ UNCHANGED para_file
    /\ UNCHANGED notParaVars

NextParadigms == LoadParadigms

SpecParadigms == InitParadigms /\ [][NextParadigms]_vars

\* C9: a paradigms.array holding a record whose length is not divisible by 3
\* fails to load, and every paradigm of a list that did load has a length
\* divisible by 3.
C9_LoadedParadigmsAreThirds ==
    (para_pc = "done" /\ para_result.ok) =>
        \A k \in 1..Len(para_result.val) : Len(para_result.val[k]) % 3 = 0

(***************************************************************************)
(* SpecInit: threads constructing MorphAnalyzers and querying them         *)
(***************************************************************************)

\* The threads of the process, the constructions one thread starts, how
\* deep __init__ calls nest (a unit's init constructing an analyzer), and
\* the units of one analyzer whose init constructs an analyzer.
MaxThreads == 2
MaxConstructions == 2
MaxDepth == 2
MaxNested == 1

Threads == 1..MaxThreads

\* The dictionaries a constructor is pointed at: two loadable bundles with
\* different grammemes.json, one that choose_dictionary_path does not find,
\* one whose format version is rejected, and one whose meta.json lacks the
\* gramtab format.
Bundles == {"ru", "uk", "no_path", "bad_version", "bad_gramtab"}

GrammemeLabels == {"NOUN", "nomn", "voct"}

\* grammemes.json of a bundle, in file order.
BundleGrammemes(bundle) ==
    CASE bundle = "ru" -> <<"NOUN", "nomn">>
      [] bundle = "uk" -> <<"NOUN", "voct", "nomn">>
      [] bundle = "bad_gramtab" -> <<"voct", "NOUN">>
      [] OTHER -> <<>>

\* The Tag class of tagset.registry before any dictionary is loaded.
NoGrammemes == [g \in GrammemeLabels |-> -1]

\* Tag._init_grammemes(grammemes): every grammeme of the list is written
\* into the class's tables under its index in the list.
init_grammemes(table, grammemes) ==
    [g \in GrammemeLabels |->
        IF \E k \in 1..Len(grammemes) : grammemes[k] = g
        THEN (CHOOSE k \in 1..Len(grammemes) : grammemes[k] = g) - 1
        ELSE table[g]]

\* _load_tag_class(gramtab_format, grammemes_filename): the class is the one
\* object of tagset.registry, shared by every load.
load_tag_class(table, grammemes) == init_grammemes(table, grammemes)

NoOutcome == [kind |-> "none"]
Raised(error) == [kind |-> "raised", error |-> error]
Constructed(analyzer) == [kind |-> "analyzer", analyzer |-> analyzer]
Read(analyzer, table) == [kind |-> "query", analyzer |-> analyzer, read |-> table]

Frame(bundle, nested, pc) == [bundle |-> bundle, nested |-> nested, pc |-> pc]

Depth(t) == Len(init_stack[t])
Top(t) == init_stack[t][Depth(t)]
Below(t) == SubSeq(init_stack[t], 1, Depth(t) - 1)

\* The stack of t with its innermost call at pc.
At(t, pc) == Append(Below(t), [Top(t) EXCEPT !.pc = pc])

\* The stack of t after its innermost call raised: the exception reaches the
\* caller, inside unit.init of _bound_unit (line 271).
Propagated(t) ==
    IF Depth(t) = 1 THEN <<>>
    ELSE Append(SubSeq(init_stack[t], 1, Depth(t) - 2),
                [init_stack[t][Depth(t) - 1] EXCEPT !.pc = "raise"])

\* The units argument of a constructor started at depth d: how many of the
\* units construct an analyzer in their init.
NestedUnits(d) == IF d < MaxDepth THEN 0..MaxNested ELSE {0}

InitInit ==
    /\ init_stack = [t \in Threads |-> <<>>]
    /\ lock_owner = Unowned
    /\ lock_count = 0
    /\ tag_grammemes = NoGrammemes
    /\ analyzers = {}
    /\ started = [t \in Threads |-> 0]
    /\ outcome = [t \in Threads |-> NoOutcome]
    /\ IdleExceptInit

\* A thread calls MorphAnalyzer(path, units=...): __init__ up to line 222.
Construct(t) ==
    /\ init_stack[t] = <<>>
    /\ started[t] < MaxConstructions
    /\ \E bundle \in Bundles, nested \in NestedUnits(1) :
          init_stack' = [init_stack EXCEPT ![t] = <<Frame(bundle, nested, "start")>>]
    /\ started' = [started EXCEPT ![t] = @ + 1]
    /\ outcome' = [outcome EXCEPT ![t] = NoOutcome]
    /\ UNCHANGED <<lock_owner, lock_count, tag_grammemes, analyzers>>
    /\ UNCHANGED notInitVars

\* Line 224: path = self.choose_dictionary_path(path, lang), outside the lock.
ChoosePath(t) ==
    /\ init_stack[t] # <<>>
    /\ Top(t).pc = "start"
    /\ IF Top(t).bundle = "no_path"
       THEN /\ init_stack' = [init_stack EXCEPT ![t] = Propagated(t)]
            /\ outcome' = [outcome EXCEPT ![t] =
                              IF Depth(t) = 1 THEN Raised("ValueError") ELSE @]
       ELSE /\ init_stack' = [init_stack EXCEPT ![t] = At(t, "acquire")]
            /\ UNCHANGED outcome
    /\ UNCHANGED <<lock_owner, lock_count, tag_grammemes, analyzers, started>>
    /\ UNCHANGED notInitVars

\* Line 226: with self._lock, entering. An RLock is taken when it is free or
\* held by the same thread.
Acquire(t) ==
    /\ init_stack[t] # <<>>
    /\ Top(t).pc = "acquire"
    /\ lock_owner \in {Unowned, t}
    /\ lock_owner' = t
    /\ lock_count' = lock_count + 1
    /\ init_stack' = [init_stack EXCEPT ![t] = At(t, "load")]
    /\ UNCHANGED <<tag_grammemes, analyzers, started, outcome>>
    /\ UNCHANGED notInitVars

\* Line 227: self.dictionary = opencorpora_dict.Dictionary(path), that is
\* load_dict: the version check, then _load_tag_class, then _load_gramtab.
LoadDict(t) ==
    /\ init_stack[t] # <<>>
    /\ Top(t).pc = "load"
    /\ IF Top(t).bundle = "bad_version"
       THEN /\ UNCHANGED tag_grammemes
            /\ init_stack' = [init_stack EXCEPT ![t] = At(t, "raise")]
       ELSE /\ tag_grammemes' =
                  load_tag_class(tag_grammemes, BundleGrammemes(Top(t).bundle))
            /\ init_stack' = [init_stack EXCEPT ![t] =
                  At(t, IF Top(t).bundle = "bad_gramtab" THEN "raise" ELSE "units")]
    /\ UNCHANGED <<lock_owner, lock_count, analyzers, started, outcome>>
    /\ UNCHANGED notInitVars

\* Line 248, _init_units -> _bound_unit -> unit.init(self) of a unit that
\* constructs an analyzer of its own, on the same thread.
BindUnit(t) ==
    /\ init_stack[t] # <<>>
    /\ Top(t).pc = "units"
    /\ Top(t).nested > 0
    /\ Depth(t) < MaxDepth
    /\ \E bundle \in Bundles, nested \in NestedUnits(Depth(t) + 1) :
          init_stack' = [init_stack EXCEPT ![t] =
              Append(Append(Below(t), [Top(t) EXCEPT !.nested = @ - 1]),
                     Frame(bundle, nested, "start"))]
    /\ UNCHANGED <<lock_owner, lock_count, tag_grammemes, analyzers, started,
                   outcome>>
    /\ UNCHANGED notInitVars

\* What leaving the with block does to the RLock.
Release ==
    /\ lock_count' = lock_count - 1
    /\ lock_owner' = IF lock_count = 1 THEN Unowned ELSE lock_owner

\* The analyzer a finished __init__ leaves: its dictionary, and the state of
\* its dictionary's Tag class when construction ended.
Analyzer(bundle, table) == [bundle |-> bundle, tag_at_init |-> table]

\* The end of the with block (after line 248) and of __init__.
Finish(t) ==
    /\ init_stack[t] # <<>>
    /\ Top(t).pc = "units"
    /\ Top(t).nested = 0
    /\ Release
    /\ analyzers' = analyzers \cup {Analyzer(Top(t).bundle, tag_grammemes)}
    /\ init_stack' = [init_stack EXCEPT ![t] = Below(t)]
    /\ outcome' = [outcome EXCEPT ![t] =
                      IF Depth(t) = 1
                      THEN Constructed(Analyzer(Top(t).bundle, tag_grammemes))
                      ELSE @]
    /\ UNCHANGED <<tag_grammemes, started>>
    /\ UNCHANGED notInitVars

\* An exception leaving the with block: the lock is released and the
\* exception goes on to the caller.
Unwind(t) ==
    /\ init_stack[t] # <<>>
    /\ Top(t).pc = "raise"
    /\ Release
    /\ init_stack' = [init_stack EXCEPT ![t] = Propagated(t)]
    /\ outcome' = [outcome EXCEPT ![t] =
                      IF Depth(t) = 1 THEN Raised("ValueError") ELSE @]
    /\ UNCHANGED <<tag_grammemes, analyzers, started>>
    /\ UNCHANGED notInitVars

\* A parse, tag or inflect call on a constructed analyzer: it takes no lock
\* and reads the Tag class its dictionary holds (lines 329-350, 395-409).
Query(t) ==
    /\ init_stack[t] = <<>>
    /\ \E analyzer \in analyzers :
          outcome' = [outcome EXCEPT ![t] = Read(analyzer, tag_grammemes)]
    /\ UNCHANGED <<init_stack, lock_owner, lock_count, tag_grammemes, analyzers,
                   started>>
    /\ UNCHANGED notInitVars

NextInit ==
    \E t \in Threads :
        \/ Construct(t)
        \/ ChoosePath(t)
        \/ Acquire(t)
        \/ LoadDict(t)
        \/ BindUnit(t)
        \/ Finish(t)
        \/ Unwind(t)
        \/ Query(t)

SpecInit == InitInit /\ [][NextInit]_vars

\* C6: a constructed analyzer's queries read, at any later time and from any
\* thread, the Tag class grammeme state its construction ended with: no
\* query and no construction of another analyzer changes it.
C6_ConstructedAnalyzersAreImmutable ==
    /\ \A analyzer \in analyzers : tag_grammemes = analyzer.tag_at_init
    /\ \A t \in Threads :
          outcome[t].kind = "query" =>
              outcome[t].read = outcome[t].analyzer.tag_at_init

(***************************************************************************)
(* SpecLock: MorphAnalyzer._lock around dictionary loading and unit        *)
(* binding.  The same __init__ calls as in SpecInit, with the dictionary   *)
(* left out: each step that may raise either raises or goes on, and the    *)
(* Tag class, the analyzers built and the construction counters stay as    *)
(* they start.                                                             *)
(***************************************************************************)

\* A slip the claims must notice: the with block entered whoever holds the
\* lock.
acquire_unguarded(owner, t) == TRUE

\* threading.RLock.acquire(): the lock is taken at once when no thread holds
\* it or the calling thread does; any other thread waits.
acquire(owner, t) == owner \in {Unowned, t}

\* An __init__ call in progress: where it stands, and how many of its units
\* still to bind construct an analyzer in their init.
Call(nested, pc) == [nested |-> nested, pc |-> pc]

Returned == [kind |-> "analyzer"]

\* A thread calls MorphAnalyzer(...): __init__ up to line 222.
EnterInit(t) ==
    /\ init_stack[t] = <<>>
    /\ \E nested \in NestedUnits(1) :
          init_stack' = [init_stack EXCEPT ![t] = <<Call(nested, "start")>>]
    /\ outcome' = [outcome EXCEPT ![t] = NoOutcome]
    /\ UNCHANGED <<lock_owner, lock_count, tag_grammemes, analyzers, started>>
    /\ UNCHANGED notInitVars

\* Line 224: choose_dictionary_path returns a path or raises, outside the lock.
PathChosen(t) ==
    /\ init_stack[t] # <<>>
    /\ Top(t).pc = "start"
    /\ \E found \in BOOLEAN :
          IF found
          THEN /\ init_stack' = [init_stack EXCEPT ![t] = At(t, "acquire")]
               /\ UNCHANGED outcome
          ELSE /\ init_stack' = [init_stack EXCEPT ![t] = Propagated(t)]
               /\ outcome' = [outcome EXCEPT ![t] =
                                 IF Depth(t) = 1 THEN Raised("ValueError") ELSE @]
    /\ UNCHANGED <<lock_owner, lock_count, tag_grammemes, analyzers, started>>
    /\ UNCHANGED notInitVars

\* Line 226: with self._lock, entering.
WithEnter(t) ==
    /\ init_stack[t] # <<>>
    /\ Top(t).pc = "acquire"
    /\ acquire(lock_owner, t)
    /\ lock_owner' = t
    /\ lock_count' = lock_count + 1
    /\ init_stack' = [init_stack EXCEPT ![t] = At(t, "load")]
    /\ UNCHANGED <<tag_grammemes, analyzers, started, outcome>>
    /\ UNCHANGED notInitVars

\* Lines 227-247: Dictionary(path) and what follows it up to _init_units
\* returns normally or raises.
DictionaryLoaded(t) ==
    /\ init_stack[t] # <<>>
    /\ Top(t).pc = "load"
    /\ \E loaded \in BOOLEAN :
          init_stack' = [init_stack EXCEPT ![t] =
                            At(t, IF loaded THEN "units" ELSE "raise")]
    /\ UNCHANGED <<lock_owner, lock_count, tag_grammemes, analyzers, started,
                   outcome>>
    /\ UNCHANGED notInitVars

\* Line 248, _init_units -> _bound_unit -> unit.init(self) of a unit that
\* constructs an analyzer of its own, on the same thread.
UnitBound(t) ==
    /\ init_stack[t] # <<>>
    /\ Top(t).pc = "units"
    /\ Top(t).nested > 0
    /\ Depth(t) < MaxDepth
    /\ \E nested \in NestedUnits(Depth(t) + 1) :
          init_stack' = [init_stack EXCEPT ![t] =
              Append(Append(Below(t), [Top(t) EXCEPT !.nested = @ - 1]),
                     Call(nested, "start"))]
    /\ UNCHANGED <<lock_owner, lock_count, tag_grammemes, analyzers, started,
                   outcome>>
    /\ UNCHANGED notInitVars

\* The end of the with block (after line 248) and of __init__.
WithExit(t) ==
    /\ init_stack[t] # <<>>
    /\ Top(t).pc = "units"
    /\ Top(t).nested = 0
    /\ Release
    /\ init_stack' = [init_stack EXCEPT ![t] = Below(t)]
    /\ outcome' = [outcome EXCEPT ![t] = IF Depth(t) = 1 THEN Returned ELSE @]
    /\ UNCHANGED <<tag_grammemes, analyzers, started>>
    /\ UNCHANGED notInitVars

\* An exception leaving the with block: the lock is released and the
\* exception goes on to the caller.
WithExitRaising(t) ==
    /\ init_stack[t] # <<>>
    /\ Top(t).pc = "raise"
    /\ Release
    /\ init_stack' = [init_stack EXCEPT ![t] = Propagated(t)]
    /\ outcome' = [outcome EXCEPT ![t] =
                      IF Depth(t) = 1 THEN Raised("ValueError") ELSE @]
    /\ UNCHANGED <<tag_grammemes, analyzers, started>>
    /\ UNCHANGED notInitVars

NextLock ==
    \E t \in Threads :
        \/ EnterInit(t)
        \/ PathChosen(t)
        \/ WithEnter(t)
        \/ DictionaryLoaded(t)
        \/ UnitBound(t)
        \/ WithExit(t)
        \/ WithExitRaising(t)

SpecLock == InitInit /\ [][NextLock]_vars

\* ---- what the claim about the lock speaks of

\* The __init__ calls of t that are inside the with block: from dictionary
\* loading to the end of unit binding, or leaving it with an exception.
InsideWith(t) ==
    {k \in 1..Depth(t) : init_stack[t][k].pc \in {"load", "units", "raise"}}

\* C13: one reentrant lock serializes construction.  At most one thread at a
\* time is between dictionary loading and the end of unit binding, and it is
\* the thread holding the lock; a thread holding the lock that constructs a
\* nested analyzer enters the with block again without waiting; and the lock
\* is held exactly as many times as there are __init__ calls inside the with
\* block, so that it is free when the last of them has ended, by returning or
\* by raising.
C13_ConstructionIsSerialized ==
    /\ \A t1, t2 \in Threads :
          (InsideWith(t1) # {} /\ InsideWith(t2) # {}) => t1 = t2
    /\ \A t \in Threads : InsideWith(t) # {} => lock_owner = t
    /\ \A t \in Threads :
          lock_owner = t => lock_count = Cardinality(InsideWith(t))
    /\ lock_owner = Unowned <=> lock_count = 0
    /\ \A t \in Threads :
          (lock_owner = t /\ init_stack[t] # <<>> /\ Top(t).pc = "acquire")
              => ENABLED WithEnter(t)

\* Thread 1 holds the lock twice: the analyzer it constructs is binding a
\* unit whose nested construction has entered the with block again and is
\* about to leave it with an exception, while thread 2 waits at the lock
\* after an earlier construction of its own ended with an error.
C13_Witness ==
    /\ Depth(1) = 2
    /\ init_stack[1][1].pc = "units"
    /\ init_stack[1][2].pc = "raise"
    /\ lock_owner = 1
    /\ lock_count = 2
    /\ init_stack[2] # <<>>
    /\ Top(2).pc = "acquire"

====
